---- MODULE Spec2Model ----
(***************************************************************************)
(* Model of energyflow/multigraphs/gen.py: the Generator class that        *)
(* enumerates simple graphs, attaches edge weightings, flattens them into  *)
(* connected catalog rows and composes disconnected rows.                  *)
(*                                                                         *)
(* A Generator object is a record; `gens` maps an object id to its record. *)
(* Every method (or loop body) of the class is an operator from the        *)
(* record before the step to the record after it, and an action applies    *)
(* one such operator to one object.                                        *)
(*                                                                         *)
(* Python indices are 0-based and are kept 0-based wherever they are data  *)
(* (k, g, w, row indices in formulae, vertex labels); TLA+ sequences are   *)
(* 1-based, so element i of a Python list is element i+1 of its sequence.  *)
(***************************************************************************)
EXTENDS Integers, Sequences, FiniteSets, TLC

VARIABLES gens

vars == <<gens>>

(***************************************************************************)
(* Bounds of the model.                                                    *)
(***************************************************************************)
\* largest dmax a configuration may give
MaxD == 6
\* largest vertex bound (given or defaulted) a configuration may have
MaxN == 3
\* largest explicit emax a configuration may give
MaxE == 3
\* largest explicit cmax a configuration may give
MaxC == 3
\* largest nmax of the runs that only enumerate simple graphs
MaxNMono == 4
\* most scorings in a run of free _add_if_new calls
MaxCalls == 3

\* the default of the optional parameters nmax, emax, cmax (gen.py line 33)
None == -1

(***************************************************************************)
(* Generic helpers.                                                        *)
(***************************************************************************)
\* a sequence written as a function on 1..k, evaluated once into a tuple
List(f) == f \o <<>>

Min(a, b) == IF a <= b THEN a ELSE b

Max(a, b) == IF a >= b THEN a ELSE b

\* range(a, b) of Python as a sequence
Range(a, b) == List([i \in 1..Max(b - a, 0) |-> a + i - 1])

SeqToSet(s) == {s[i] : i \in 1..Len(s)}

RECURSIVE SumSeq(_)
SumSeq(s) == IF Len(s) = 0 THEN 0 ELSE s[1] + SumSeq(Tail(s))

RECURSIVE ConcatRec(_)
ConcatRec(ss) == IF Len(ss) = 0 THEN <<>> ELSE ss[1] \o ConcatRec(Tail(ss))

\* concatenation of a sequence of sequences
Concat(ss) == ConcatRec(List(ss))

\* lexicographic order on integer tuples (Python's tuple comparison)
RECURSIVE TupleLess(_, _)
TupleLess(a, b) ==
    IF Len(a) = 0 THEN Len(b) > 0
    ELSE IF Len(b) = 0 THEN FALSE
    ELSE IF a[1] # b[1] THEN a[1] < b[1]
    ELSE TupleLess(Tail(a), Tail(b))

\* insertion of the integer x into a sorted sequence, after its equals
RECURSIVE InsertInt(_, _)
InsertInt(x, s) ==
    IF Len(s) = 0 THEN <<x>>
    ELSE IF x < s[1] THEN <<x>> \o s
    ELSE <<s[1]>> \o InsertInt(x, Tail(s))

\* sorted(s) for a sequence of integers
RECURSIVE SortInts(_)
SortInts(s) ==
    IF Len(s) = 0 THEN <<>>
    ELSE InsertInt(s[Len(s)], SortInts(SubSeq(s, 1, Len(s) - 1)))

\* insertion of the tuple x into a sorted sequence of tuples, after its equals
RECURSIVE InsertTuple(_, _)
InsertTuple(x, s) ==
    IF Len(s) = 0 THEN <<x>>
    ELSE IF TupleLess(x, s[1]) THEN <<x>> \o s
    ELSE <<s[1]>> \o InsertTuple(x, Tail(s))

\* sorted(s) for a sequence of integer tuples
RECURSIVE SortTuples(_)
SortTuples(s) ==
    IF Len(s) = 0 THEN <<>>
    ELSE InsertTuple(s[Len(s)], SortTuples(SubSeq(s, 1, Len(s) - 1)))

(***************************************************************************)
(* Graphs.  A vertex is a number 0..n-1, an edge a pair <<u, v>> with      *)
(* u < v, an edge list the sequence of edges in insertion order (what      *)
(* igraph's get_edgelist returns), a graph a record [n, edges].            *)
(***************************************************************************)
Graph(n, edges) == [n |-> n, edges |-> edges]

\* igraph.Graph.Full(2, directed=False)
Full2 == Graph(2, << <<0, 1>> >>)

\* all bijections of the vertices 0..n-1, for every n the model can meet
PermsOf == [n \in 0..Max(MaxN, MaxNMono) |->
              {p \in [0..(n - 1) -> 0..(n - 1)] : \A a, b \in 0..(n - 1) : p[a] = p[b] => a = b}]

\* the image of an edge under a vertex permutation, normalised to u < v
MapEdge(p, ed) == <<Min(p[ed[1]], p[ed[2]]), Max(p[ed[1]], p[ed[2]])>>

\* Graph.isomorphic: some bijection of the vertices maps the edge set of g1
\* onto the edge set of g2
Isomorphic(g1, g2) ==
    /\ g1.n = g2.n
    /\ Len(g1.edges) = Len(g2.edges)
    /\ \E p \in PermsOf[g1.n] :
          {MapEdge(p, g1.edges[i]) : i \in 1..Len(g1.edges)} = SeqToSet(g2.edges)

\* Graph.isomorphic_vf2(other=graph, edge_color1=c1, edge_color2=c2): some
\* automorphism of g maps every edge to an edge of the same colour
IsomorphicColored(g, c1, c2) ==
    \E p \in PermsOf[g.n] :
        \A i \in 1..Len(g.edges) :
            \E j \in 1..Len(g.edges) :
                /\ MapEdge(p, g.edges[i]) = g.edges[j]
                /\ c1[i] = c2[j]

(***************************************************************************)
(* The complexity collaborator (VariableElimination, energyflow.algorithms)*)
(* is outside the file: any deterministic score of (edge list, n).  The    *)
(* model offers two: "iso" scores the isomorphism class only (the largest  *)
(* degree), "lab" depends on the labelling (1 + degree of vertex 0).       *)
(***************************************************************************)
VeAlgs == {"iso", "lab"}

Degree(edges, v) == Cardinality({i \in 1..Len(edges) : edges[i][1] = v \/ edges[i][2] = v})

MaxDegree(edges, n) ==
    LET ds == {Degree(edges, v) : v \in 0..(n - 1)} \cup {0}
    IN  CHOOSE m \in ds : \A x \in ds : x <= m

Ve(alg, edges, n) ==
    IF alg = "iso" THEN MaxDegree(edges, n)
    ELSE 1 + Degree(edges, 0)

(***************************************************************************)
(* Integer partitions (energyflow.algorithms, outside the file).           *)
(***************************************************************************)
\* unordered partitions of n with all parts >= lo, each ascending, in
\* lexicographic order
RECURSIVE PartsFrom(_, _)
PartsFrom(n, lo) ==
    IF n = 0 THEN << <<>> >>
    ELSE Concat([a \in 1..n |->
            IF a < lo \/ (a # n /\ n - a < a) THEN <<>>
            ELSE LET rest == PartsFrom(n - a, a)
                 IN  [i \in 1..Len(rest) |-> <<a>> \o rest[i]]])

\* the partitions of 1..2*MaxD, computed once
PartsTable == List([n \in 1..(2 * MaxD) |-> PartsFrom(n, 1)])

int_partition_unordered(n) ==
    IF n \in 1..Len(PartsTable) THEN PartsTable[n] ELSE PartsFrom(n, 1)

\* ordered partitions (compositions) of d into exactly e positive parts, in
\* lexicographic order
RECURSIVE int_partition_ordered(_, _)
int_partition_ordered(d, e) ==
    IF e = 0 THEN (IF d = 0 THEN << <<>> >> ELSE <<>>)
    ELSE Concat([a \in 1..d |->
            LET rest == int_partition_ordered(d - a, e - 1)
            IN  [i \in 1..Len(rest) |-> <<a>> \o rest[i]]])

(***************************************************************************)
(* Generator.__init__, lines 55-70: parameters and containers.             *)
(***************************************************************************)
\* self.ns
Ns(self) == Range(2, self.nmax + 1)

\* self.emaxs[n] = min(emax, int(n/2*(n-1)))
Emaxs(self, n) == Min(self.emax, (n * (n - 1)) \div 2)

\* self.esbyn[n]
Esbyn(self, n) == Range(n - 1, Emaxs(self, n) + 1)

\* the keys (n, e) of every container, in the order n then e
KeySeq(self) ==
    Concat([i \in 1..Len(Ns(self)) |->
              LET n == Ns(self)[i]
              IN  [j \in 1..Len(Esbyn(self, n)) |-> <<n, Esbyn(self, n)[j]>>]])

Keys(self) == SeqToSet(KeySeq(self))

\* the object after lines 52-70, about to call _generate_simple
NewGenerator(dmax, nmax, emax, cmax, ve_alg, set_order) ==
    LET nm == IF nmax # None THEN nmax ELSE dmax + 1
        em == IF emax # None THEN emax ELSE dmax
        cm == IF cmax # None THEN cmax ELSE nm
        p  == [dmax |-> dmax, nmax |-> nm, emax |-> em]
    IN  [dmax |-> dmax, nmax |-> nm, emax |-> em, cmax |-> cm,
         ve_alg |-> ve_alg, set_order |-> set_order,
         pc |-> "simple_base",
         simple_graphs_d |-> [ne \in Keys(p) |-> <<>>],
         edges_d |-> [ne \in Keys(p) |-> <<>>],
         chis_d |-> [ne \in Keys(p) |-> <<>>],
         weights_d |-> [ne \in Keys(p) |-> <<>>],
         ve_calls |-> 0,
         bi |-> 0, queue |-> <<>>, gi |-> 0, g |-> 0, w |-> 0, i |-> 0, ci |-> 0,
         connected_specs |-> <<>>, edges |-> <<>>, weights |-> <<>>,
         ks |-> <<>>, ndk2i |-> <<>>,
         l_disc_formulae |-> <<>>, l_disc_specs |-> <<>>,
         disc_formulae |-> <<>>, disc_specs |-> <<>>, specs |-> <<>>]

(***************************************************************************)
(* _add_if_new, lines 123-140.                                             *)
(***************************************************************************)
\* a slip: only the graph accepted last is compared
IsoToLast(self, new_graph, ne) ==
    /\ Len(self.simple_graphs_d[ne]) > 0
    /\ Isomorphic(new_graph, self.simple_graphs_d[ne][Len(self.simple_graphs_d[ne])])

\* the loop of lines 125-126
IsoToExisting(self, new_graph, ne) ==
    \E i \in 1..Len(self.simple_graphs_d[ne]) :
        Isomorphic(new_graph, self.simple_graphs_d[ne][i])

\* line 131
ChiTooLarge(self, chi) == chi > self.cmax

AddIfNew(self, new_graph, ne) ==
    IF ne \notin DOMAIN self.simple_graphs_d
    THEN [self EXCEPT !.pc = "KeyError"]
    ELSE IF IsoToExisting(self, new_graph, ne) THEN self
    ELSE LET new_edges == new_graph.edges
             chi == Ve(self.ve_alg, new_edges, ne[1])
             scored == [self EXCEPT !.ve_calls = @ + 1]
         IN  IF ChiTooLarge(self, chi) THEN scored
             ELSE [scored EXCEPT !.simple_graphs_d[ne] = Append(@, new_graph),
                                 !.edges_d[ne] = Append(@, new_edges),
                                 !.chis_d[ne] = Append(@, chi)]

(***************************************************************************)
(* _generate_simple, lines 82-116.                                         *)
(***************************************************************************)
\* self.base_edges[n] = list(itertools.combinations(range(n), 2))
BaseEdges(n) ==
    Concat([u \in 1..n |-> [j \in 1..(n - u) |-> <<u - 1, u - 1 + j>>]])

\* _edge_filter, lines 143-146
EdgeFilter(n, edges) ==
    SelectSeq(BaseEdges(n), LAMBDA ed : ed \notin SeqToSet(edges))

\* the buckets the loops of lines 89-90 visit, in order
LoopKeys(self) == SelectSeq(KeySeq(self), LAMBDA ne : ne[1] > 2)

\* lines 93-103: one candidate per graph of (n-1, e-1) and vertex v
VertexCandidates(self, n, e) ==
    IF n - 1 >= 2 /\ (e - 1) \in SeqToSet(Esbyn(self, n - 1))
    THEN LET seeds == self.simple_graphs_d[<<n - 1, e - 1>>]
         IN  Concat([s \in 1..Len(seeds) |->
                 [v \in 1..(n - 1) |->
                     Graph(n, Append(seeds[s].edges, <<v - 1, n - 1>>))]])
    ELSE <<>>

\* lines 106-116: one candidate per graph of (n, e-1) and missing edge
EdgeCandidates(self, n, e) ==
    IF (e - 1) \in SeqToSet(Esbyn(self, n))
    THEN LET seeds == self.simple_graphs_d[<<n, e - 1>>]
             sedges == self.edges_d[<<n, e - 1>>]
             m == Min(Len(seeds), Len(sedges))
         IN  Concat([s \in 1..m |->
                 LET new == EdgeFilter(n, sedges[s])
                 IN  [x \in 1..Len(new) |-> Graph(n, Append(seeds[s].edges, new[x]))]])
    ELSE <<>>

Candidates(self, n, e) == VertexCandidates(self, n, e) \o EdgeCandidates(self, n, e)

\* line 86
AddBaseOp(self) ==
    LET s == AddIfNew(self, Full2, <<2, 1>>)
    IN  IF s.pc = "KeyError" THEN s ELSE [s EXCEPT !.pc = "simple"]

\* lines 89-90: enter the next bucket (n, e)
NextBucketOp(self) ==
    LET ne == LoopKeys(self)[self.bi + 1]
    IN  [self EXCEPT !.bi = @ + 1, !.queue = Candidates(self, ne[1], ne[2])]

\* lines 103 and 116: the next candidate of the current bucket
TryCandidateOp(self) ==
    LET s == AddIfNew(self, Head(self.queue), LoopKeys(self)[self.bi])
    IN  [s EXCEPT !.queue = Tail(self.queue)]

AddBase(r) ==
    /\ gens[r].pc = "simple_base"
    /\ gens' = [gens EXCEPT ![r] = AddBaseOp(gens[r])]

NextBucket(r) ==
    /\ gens[r].pc = "simple"
    /\ gens[r].queue = <<>>
    /\ gens[r].bi < Len(LoopKeys(gens[r]))
    /\ gens' = [gens EXCEPT ![r] = NextBucketOp(gens[r])]

TryCandidate(r) ==
    /\ gens[r].pc = "simple"
    /\ gens[r].queue # <<>>
    /\ gens' = [gens EXCEPT ![r] = TryCandidateOp(gens[r])]

(***************************************************************************)
(* _generate_weights, lines 149-187.                                       *)
(***************************************************************************)
\* lines 173-186: the parts of `parts` not edge-colour-isomorphic to a part
\* accepted before them, appended to `weightings`
RECURSIVE FilterWeightings(_, _, _)
FilterWeightings(graph, parts, weightings) ==
    IF Len(parts) = 0 THEN weightings
    ELSE LET part == parts[1]
             iso == \E i \in 1..Len(weightings) :
                        IsomorphicColored(graph, weightings[i], part)
         IN  FilterWeightings(graph, Tail(parts),
                              IF iso THEN weightings ELSE Append(weightings, part))

\* lines 170-186 for one graph with e edges
WeightingsOf(graph, e, dmax) ==
    FilterWeightings(graph,
                     Concat([x \in 1..Max(dmax + 1 - e, 0) |->
                                int_partition_ordered(e + x - 1, e)]),
                     <<>>)

\* the whole method; line 152 appends one list to bucket (2,1) whether or
\* not that bucket holds a graph
GenerateWeightsOp(self) ==
    [self EXCEPT
        !.pc = "connected",
        !.weights_d = [ne \in DOMAIN self.weights_d |->
            IF ne = <<2, 1>>
            THEN Append(self.weights_d[ne], List([x \in 1..Max(self.dmax, 0) |-> <<x>>]))
            ELSE self.weights_d[ne] \o
                 [j \in 1..Len(self.simple_graphs_d[ne]) |->
                     WeightingsOf(self.simple_graphs_d[ne][j], ne[2], self.dmax)]]]

GenerateWeights(r) ==
    /\ gens[r].pc = "simple"
    /\ gens[r].queue = <<>>
    /\ gens[r].bi = Len(LoopKeys(gens[r]))
    /\ gens' = [gens EXCEPT ![r] = GenerateWeightsOp(gens[r])]

(***************************************************************************)
(* _generate_disconnected, lines 207-232: the connected rows.              *)
(***************************************************************************)
\* the columns n, e, d, k, g, w, c, p of a row (line 207), 1-based
n_ind == 1
e_ind == 2
d_ind == 3
k_ind == 4
g_ind == 5
w_ind == 6
c_ind == 7
p_ind == 8

\* the number of items zip() yields for bucket ne (lines 215-216)
ZipLen(self, ne) ==
    Min(Len(self.edges_d[ne]), Min(Len(self.weights_d[ne]), Len(self.chis_d[ne])))

\* the (bucket, position) pairs the loops of lines 213 and 217 visit, in
\* order; sorted(self.chis_d.keys()) is the order n, then e
GraphSeq(self) ==
    LET keys == KeySeq(self)
    IN  Concat([b \in 1..Len(keys) |->
                  [j \in 1..ZipLen(self, keys[b]) |-> <<keys[b], j>>]])

\* self.ks.setdefault(nd, 0)
KsGet(ks, nd) == IF nd \in DOMAIN ks THEN ks[nd] ELSE 0

\* a slip: the position counted from 1
RowIndexFromOne(self) == self.i + 1

\* the position the index records for the row being appended (line 223)
RowIndex(self) == self.i

\* a slip: g counted within the bucket
RowGInBucket(self) == GraphSeq(self)[self.gi + 1][2] - 1

\* the graph column of the row being appended (line 222)
RowG(self) == self.g

\* lines 219-226, one weighting
AddRow(self, n, e, chi, weighting) ==
    LET d == SumSeq(weighting)
        k == KsGet(self.ks, <<n, d>>)
    IN  [self EXCEPT
            !.ks = (<<n, d>> :> (k + 1)) @@ self.ks,
            !.connected_specs = Append(@, <<n, e, d, k, RowG(self), self.w, chi, 1>>),
            !.ndk2i = (<<n, d, k>> :> RowIndex(self)) @@ self.ndk2i,
            !.weights = Append(@, weighting),
            !.w = @ + 1,
            !.i = @ + 1]

\* the loop of line 218
RECURSIVE AddRows(_, _, _, _, _)
AddRows(self, n, e, chi, weightings) ==
    IF Len(weightings) = 0 THEN self
    ELSE AddRows(AddRow(self, n, e, chi, weightings[1]), n, e, chi, Tail(weightings))

\* lines 217-230, one graph of one bucket
ConnectedGraphOp(self) ==
    LET item == GraphSeq(self)[self.gi + 1]
        ne == item[1]
        j == item[2]
        s == AddRows(self, ne[1], ne[2], self.chis_d[ne][j], self.weights_d[ne][j])
    IN  [s EXCEPT !.edges = Append(@, self.edges_d[ne][j]),
                  !.g = @ + 1,
                  !.gi = @ + 1]

ConnectedGraph(r) ==
    /\ gens[r].pc = "connected"
    /\ gens[r].gi < Len(GraphSeq(gens[r]))
    /\ gens' = [gens EXCEPT ![r] = ConnectedGraphOp(gens[r])]

(***************************************************************************)
(* _generate_disconnected, lines 234-306: the disconnected rows.           *)
(***************************************************************************)
\* list.sort(key=len): stable insertion by length
RECURSIVE InsertByLen(_, _)
InsertByLen(x, s) ==
    IF Len(s) = 0 THEN <<x>>
    ELSE IF Len(x) < Len(s[1]) THEN <<x>> \o s
    ELSE <<s[1]>> \o InsertByLen(x, Tail(s))

RECURSIVE SortByLen(_)
SortByLen(s) ==
    IF Len(s) = 0 THEN <<>>
    ELSE InsertByLen(s[Len(s)], SortByLen(SubSeq(s, 1, Len(s) - 1)))

\* a slip: parts must stay below nmax
good_part_below(nmax, x) ==
    /\ 1 \notin SeqToSet(x)
    /\ \A i \in 1..Len(x) : x[i] < nmax
    /\ Len(x) > 1

\* line 240
good_part(nmax, x) ==
    /\ 1 \notin SeqToSet(x)
    /\ \A i \in 1..Len(x) : x[i] <= nmax
    /\ Len(x) > 1

\* lines 241-242
NParts(nmax, n) ==
    SortByLen(SelectSeq(int_partition_unordered(n), LAMBDA x : good_part(nmax, x)))

\* the first d of the loop of line 245: int(n/2)
DFirst(n) == n \div 2

\* the (n, d, n_part) triples the loops of lines 237, 245 and 248 visit
CellsOf(dmax, nmax) ==
    Concat([a \in 1..Max(2 * dmax - 3, 0) |->
        LET n == a + 3
            ps == NParts(nmax, n)
        IN  Concat([b \in 1..Max(dmax + 1 - DFirst(n), 0) |->
                LET d == DFirst(n) + b - 1
                IN  [c \in 1..Len(ps) |-> <<n, d, ps[c]>>]])])

\* CellsOf for every dmax in 0..MaxD and nmax in 1..MaxN, computed once
CellsTable == List([dm \in 1..(MaxD + 1) |-> List([nm \in 1..MaxN |-> CellsOf(dm - 1, nm)])])

Cells(self) ==
    IF self.dmax \in 0..MaxD /\ self.nmax \in 1..MaxN
    THEN CellsTable[self.dmax + 1][self.nmax]
    ELSE CellsOf(self.dmax, self.nmax)

\* a slip: partitions of d no longer than the n-partition
DPartsAtMost(d, len) == SelectSeq(int_partition_unordered(d), LAMBDA x : Len(x) <= len)

\* line 252
DParts(d, len) == SelectSeq(int_partition_unordered(d), LAMBDA x : Len(x) = len)

\* s without its element at position i
RemoveAt(s, i) == SubSeq(s, 1, i - 1) \o SubSeq(s, i + 1, Len(s))

\* set(itertools.permutations(n_part)): the distinct orderings of a tuple
RECURSIVE Orderings(_)
Orderings(t) ==
    IF Len(t) = 0 THEN {<<>>}
    ELSE UNION {{<<t[i]>> \o o : o \in Orderings(RemoveAt(t, i))} : i \in 1..Len(t)}

\* line 267: the sorted tuple of the pairs (n_i, d_i)
SpecOf(n_part_ord, d_part) ==
    SortTuples(List([i \in 1..Min(Len(n_part_ord), Len(d_part)) |->
                        <<n_part_ord[i], d_part[i]>>]))

\* lines 270-276
GoodSpec(self, spec) == \A i \in 1..Len(spec) : spec[i] \in DOMAIN self.ks

\* lines 258-278: the set of specs of one cell
SpecsOfCell(self, n_part, d_parts) ==
    {sp \in {SpecOf(o, d_parts[i]) : o \in Orderings(n_part), i \in 1..Len(d_parts)} :
        GoodSpec(self, sp)}

\* a spec as one integer tuple, for ordering
Flatten(spec) == Concat(spec)

\* the elements of a set of specs in ascending order
RECURSIVE SortedSpecs(_)
SortedSpecs(S) ==
    IF S = {} THEN <<>>
    ELSE LET m == CHOOSE x \in S : \A y \in S : ~TupleLess(Flatten(y), Flatten(x))
         IN  <<m>> \o SortedSpecs(S \ {m})

Reverse(s) == List([i \in 1..Len(s) |-> s[Len(s) + 1 - i]])

\* line 281: the order in which the set `specs` is iterated.  A set has no
\* order of its own; set_order is the order this object's sets iterate in.
SpecOrder(self, S) ==
    IF self.set_order = "asc" THEN SortedSpecs(S) ELSE Reverse(SortedSpecs(S))

\* itertools.product(*[range(c) for c in counts]), last position fastest
RECURSIVE Product(_)
Product(counts) ==
    IF Len(counts) = 0 THEN << <<>> >>
    ELSE LET rest == Product(Tail(counts))
         IN  Concat([a \in 1..counts[1] |->
                        [i \in 1..Len(rest) |-> <<a - 1>> \o rest[i]]])

\* line 284
KCountStart(self, n, d) == IF <<n, d>> \notin DOMAIN self.ks THEN 0 ELSE self.ks[<<n, d>>]

\* lines 291-301: the row indices of the factors
FormulaOf(self, spec, kspec) ==
    List([i \in 1..Len(spec) |-> self.ndk2i[<<spec[i][1], spec[i][2], kspec[i]>>]])

\* the largest value of column col among rows ind (0-based), starting at 0
RECURSIVE MaxCol(_, _, _)
MaxCol(self, formula, col) ==
    IF Len(formula) = 0 THEN 0
    ELSE Max(self.connected_specs[formula[1] + 1][col], MaxCol(self, Tail(formula), col))

\* lines 304-305 for the kspec at position x (from 0) of the product
DiscRow(self, n, d, kcount, formula, kspec) ==
    <<n, MaxCol(self, formula, e_ind), d, kcount, -1, -1,
      MaxCol(self, formula, c_ind), Len(kspec)>>

\* lines 284-306, one spec
AddSpec(self, n, d, spec) ==
    LET kspecs == Product(List([i \in 1..Len(spec) |-> self.ks[spec[i]]]))
        k0 == KCountStart(self, n, d)
    IN  [self EXCEPT
            !.l_disc_formulae = @ \o
                [x \in 1..Len(kspecs) |-> SortInts(FormulaOf(self, spec, kspecs[x]))],
            !.l_disc_specs = @ \o
                [x \in 1..Len(kspecs) |->
                    DiscRow(self, n, d, k0 + x - 1, FormulaOf(self, spec, kspecs[x]), kspecs[x])]]

\* the loop of line 281
RECURSIVE AddSpecs(_, _, _, _)
AddSpecs(self, n, d, specs) ==
    IF Len(specs) = 0 THEN self
    ELSE AddSpecs(AddSpec(self, n, d, specs[1]), n, d, Tail(specs))

\* lines 248-306, one n_part of one (n, d)
DiscCellOp(self) ==
    LET cell == Cells(self)[self.ci + 1]
        n == cell[1]
        d == cell[2]
        n_part == cell[3]
        d_parts == DParts(d, Len(n_part))
        s == [self EXCEPT !.pc = "disconnected", !.ci = @ + 1]
    IN  IF Len(d_parts) = 0 THEN s
        ELSE AddSpecs(s, n, d, SpecOrder(self, SpecsOfCell(self, n_part, d_parts)))

\* the connected pass is over (line 232)
ConnectedOver(self) ==
    \/ self.pc = "connected" /\ self.gi = Len(GraphSeq(self))
    \/ self.pc = "disconnected"

DiscCell(r) ==
    /\ ConnectedOver(gens[r])
    /\ gens[r].ci < Len(Cells(gens[r]))
    /\ gens' = [gens EXCEPT ![r] = DiscCellOp(gens[r])]

(***************************************************************************)
(* _generate_disconnected, lines 308-320: unique formulae and the merge.   *)
(***************************************************************************)
\* a slip: nothing is masked out
MaskAll(forms) == List([x \in 1..Len(forms) |-> TRUE])

\* lines 309-311: True at the first occurrence of every formula
Mask(forms) ==
    List([x \in 1..Len(forms) |-> \A y \in 1..(x - 1) : forms[y] # forms[x]])

\* array[mask]
RECURSIVE Masked(_, _)
Masked(s, mask) ==
    IF Len(s) = 0 THEN <<>>
    ELSE (IF mask[1] THEN <<s[1]>> ELSE <<>>) \o Masked(Tail(s), Tail(mask))

\* lines 310-314 hand the lists to numpy: an empty list indexed by an empty
\* mask, and a list of tuples of unequal lengths, make an array in some numpy
\* versions and raise in others
NumpyMayRaise(forms) ==
    \/ Len(forms) = 0
    \/ \E x, y \in 1..Len(forms) : Len(forms[x]) # Len(forms[y])

FinishOp(self, raises) ==
    LET mask == Mask(self.l_disc_formulae)
        dspecs == Masked(self.l_disc_specs, mask)
    IN  IF raises THEN [self EXCEPT !.pc = "ArrayError"]
        ELSE [self EXCEPT
                 !.pc = "done",
                 !.disc_formulae = Masked(self.l_disc_formulae, mask),
                 !.disc_specs = dspecs,
                 !.specs = self.connected_specs \o dspecs]

Finish(r) ==
    /\ ConnectedOver(gens[r])
    /\ gens[r].ci = Len(Cells(gens[r]))
    /\ \E raises \in {FALSE} \cup {NumpyMayRaise(gens[r].l_disc_formulae)} :
           gens' = [gens EXCEPT ![r] = FinishOp(gens[r], raises)]

(***************************************************************************)
(* Configurations the model constructs, and the specifications.            *)
(***************************************************************************)
SetOrders == {"asc", "desc"}

Params == {c \in [dmax : 0..MaxD, nmax : {None} \cup 1..MaxN,
                  emax : {None} \cup 0..MaxE, cmax : {None} \cup 0..MaxC] :
              (c.nmax = None) => (c.dmax + 1 <= MaxN)}

\* the constructor has returned or raised
Ended(self) == self.pc \in {"done", "KeyError", "ArrayError"}

\* _generate_simple has returned or raised
SimpleOver(self) ==
    \/ self.pc = "KeyError"
    \/ self.pc = "simple" /\ self.queue = <<>> /\ self.bi = Len(LoopKeys(self))

\* objects are constructed one after the other: the objects whose turn it is
Ready == {r \in DOMAIN gens : \A q \in DOMAIN gens : q < r => Ended(gens[q])}

ReadySimple == {r \in DOMAIN gens : \A q \in DOMAIN gens : q < r => SimpleOver(gens[q])}

\* one Generator(dmax, nmax, emax, cmax)
Init ==
    \E c \in Params, a \in VeAlgs, o \in SetOrders :
        gens = [r \in {1} |-> NewGenerator(c.dmax, c.nmax, c.emax, c.cmax, a, o)]

Next ==
    \/ \E r \in Ready : AddBase(r)
    \/ \E r \in Ready : NextBucket(r)
    \/ \E r \in Ready : TryCandidate(r)
    \/ \E r \in Ready : GenerateWeights(r)
    \/ \E r \in Ready : ConnectedGraph(r)
    \/ \E r \in Ready : DiscCell(r)
    \/ \E r \in Ready : Finish(r)

Spec == Init /\ [][Next]_vars

\* two Generators with the same arguments and collaborator, each with its
\* own set iteration order
InitDet ==
    \E c \in Params, a \in VeAlgs, o \in SetOrders :
        gens = [r \in {1, 2} |->
                   NewGenerator(c.dmax, c.nmax, c.emax, c.cmax, a,
                                IF r = 1 THEN "asc" ELSE o)]

SpecDet == InitDet /\ [][Next]_vars

\* two simple-graph enumerations that differ in cmax only, cmax1 <= cmax2
InitMono ==
    \E n \in 2..MaxNMono, e \in 1..MaxE, c1 \in 0..MaxC, c2 \in 0..MaxC, a \in VeAlgs :
        /\ c1 <= c2
        /\ gens = [r \in {1, 2} |->
                      NewGenerator(1, n, e, IF r = 1 THEN c1 ELSE c2, a, "asc")]

NextMono ==
    \/ \E r \in ReadySimple : AddBase(r)
    \/ \E r \in ReadySimple : NextBucket(r)
    \/ \E r \in ReadySimple : TryCandidate(r)

SpecMono == InitMono /\ [][NextMono]_vars

\* every simple graph on n labelled vertices with at least one edge, its
\* edge list in the order of BaseEdges
RECURSIVE SubLists(_)
SubLists(s) ==
    IF Len(s) = 0 THEN {<<>>}
    ELSE LET rest == SubLists(Tail(s))
         IN  rest \cup {<<s[1]>> \o t : t \in rest}

GraphsOn(n) == {Graph(n, es) : es \in SubLists(BaseEdges(n)) \ {<<>>}}

\* _add_if_new called with any graph on any existing bucket
AddAny(r) ==
    /\ gens[r].ve_calls < MaxCalls
    /\ \E ne \in DOMAIN gens[r].simple_graphs_d :
           \E new_graph \in GraphsOn(ne[1]) :
               gens' = [gens EXCEPT ![r] = AddIfNew(gens[r], new_graph, ne)]

InitAdd ==
    \E n \in 2..MaxN, e \in 1..MaxE, c \in 0..MaxC, a \in VeAlgs :
        gens = [r \in {1} |-> NewGenerator(1, n, e, c, a, "asc")]

NextAdd == \E r \in DOMAIN gens : AddAny(r)

SpecAdd == InitAdd /\ [][NextAdd]_vars

(***************************************************************************)
(* Properties.                                                             *)
(***************************************************************************)
Done(self) == self.pc = "done"

NoDuplicates(s) == \A x, y \in 1..Len(s) : s[x] = s[y] => x = y

\* the columns n, e, d, k of a row
NEDK(row) == <<row[n_ind], row[e_ind], row[d_ind], row[k_ind]>>

\* C1: in the final catalog, the k values of the rows that share (n, d) are
\* exactly 0..count-1, count being the number of such rows.
C1_KContiguous ==
    \A r \in DOMAIN gens :
        Done(gens[r]) =>
            LET rows == gens[r].specs
            IN  \A x \in 1..Len(rows) :
                    LET same == {j \in 1..Len(rows) :
                                    /\ rows[j][n_ind] = rows[x][n_ind]
                                    /\ rows[j][d_ind] = rows[x][d_ind]}
                    IN  {rows[j][k_ind] : j \in same} = 0..(Cardinality(same) - 1)

\* the configuration dmax=2, nmax=2 with emax and cmax at their defaults
ScenarioB(self) == self.dmax = 2 /\ self.nmax = 2 /\ self.emax = 2 /\ self.cmax = 2

ScenarioBConnected(self) ==
    /\ Len(self.connected_specs) = 2
    /\ NEDK(self.connected_specs[1]) = <<2, 1, 1, 0>>
    /\ NEDK(self.connected_specs[2]) = <<2, 1, 2, 0>>

\* C2 as stated: for dmax=2, nmax=2 the catalog is the two connected rows
\* (2,1,1,0), (2,1,2,0) and has no disconnected row.
C2_ScenarioB_NoDisconnected ==
    \A r \in DOMAIN gens :
        (Done(gens[r]) /\ ScenarioB(gens[r])) =>
            /\ ScenarioBConnected(gens[r])
            /\ Len(gens[r].disc_specs) = 0
            /\ gens[r].specs = gens[r].connected_specs

\* C2 as amended: for dmax=2, nmax=2 the catalog is the two connected rows
\* (2,1,1,0), (2,1,2,0) followed by the one disconnected row
\* (n=4, e=1, d=2, k=0, g=-1, w=-1, p=2) whose formula is (0, 0).
C2_ScenarioB_OneDisconnected ==
    \A r \in DOMAIN gens :
        (Done(gens[r]) /\ ScenarioB(gens[r])) =>
            /\ ScenarioBConnected(gens[r])
            /\ gens[r].disc_specs =
                   << <<4, 1, 2, 0, -1, -1, gens[r].connected_specs[1][c_ind], 2>> >>
            /\ gens[r].disc_formulae = << <<0, 0>> >>
            /\ gens[r].specs = gens[r].connected_specs \o gens[r].disc_specs

C2_Witness ==
    \E r \in DOMAIN gens :
        Done(gens[r]) /\ ScenarioB(gens[r]) /\ Len(gens[r].specs) = 3

\* dmax<1, nmax<2, cmax<1 or emax<1
InvalidConfiguration(self) ==
    self.dmax < 1 \/ self.nmax < 2 \/ self.cmax < 1 \/ self.emax < 1

\* C3: an invalid configuration ends in an error before any generation step:
\* nothing is scored or stored, no weighting list is created, no row is
\* produced.  (Any error outcome is taken for the rejection.)
C3_InvalidRejected ==
    \A r \in DOMAIN gens :
        InvalidConfiguration(gens[r]) =>
            /\ gens[r].pc \in {"simple_base", "KeyError"}
            /\ gens[r].ve_calls = 0
            /\ \A ne \in DOMAIN gens[r].simple_graphs_d :
                   gens[r].simple_graphs_d[ne] = <<>> /\ gens[r].weights_d[ne] = <<>>
            /\ gens[r].connected_specs = <<>>
            /\ gens[r].specs = <<>>

\* the ascending tuples of 0-based row indices >= lo whose rows' d sum to at
\* most budget
RECURSIVE Multisets(_, _, _)
Multisets(rows, lo, budget) ==
    {<<>>} \cup
    UNION {{<<x>> \o t : t \in Multisets(rows, x, budget - rows[x + 1][d_ind])} :
              x \in {y \in lo..(Len(rows) - 1) : rows[y + 1][d_ind] <= budget}}

\* C4: every multiset of at least 2 connected rows whose d sum to at most
\* dmax has its sorted index tuple in disc_formulae exactly once, and
\* disc_formulae holds no tuple twice.
C4_DiscComplete ==
    \A r \in DOMAIN gens :
        Done(gens[r]) =>
            /\ {f \in Multisets(gens[r].connected_specs, 0, gens[r].dmax) : Len(f) >= 2}
                   \subseteq SeqToSet(gens[r].disc_formulae)
            /\ NoDuplicates(gens[r].disc_formulae)

\* a run in which the list of formulae held duplicates before the mask
C4_Witness ==
    \E r \in DOMAIN gens :
        /\ Done(gens[r])
        /\ Len(gens[r].disc_formulae) > 0
        /\ Len(gens[r].l_disc_formulae) > Len(gens[r].disc_formulae)

\* the sum of column col over the connected rows a formula names
RECURSIVE SumCol(_, _, _)
SumCol(self, formula, col) ==
    IF Len(formula) = 0 THEN 0
    ELSE self.connected_specs[formula[1] + 1][col] + SumCol(self, Tail(formula), col)

\* C5: every disconnected row has a formula at its position; the formula has
\* at least 2 entries, each the index of a connected row, and the n and the d
\* of those rows sum to the n and the d of the disconnected row.
C5_FormulaResolves ==
    \A r \in DOMAIN gens :
        Done(gens[r]) =>
            /\ Len(gens[r].disc_formulae) = Len(gens[r].disc_specs)
            /\ \A x \in 1..Len(gens[r].disc_specs) :
                   LET f == gens[r].disc_formulae[x]
                       row == gens[r].disc_specs[x]
                   IN  /\ Len(f) >= 2
                       /\ \A i \in 1..Len(f) : f[i] \in 0..(Len(gens[r].connected_specs) - 1)
                       /\ SumCol(gens[r], f, n_ind) = row[n_ind]
                       /\ SumCol(gens[r], f, d_ind) = row[d_ind]

\* a catalog with a disconnected row of three components, not all alike
C5_Witness ==
    \E r \in DOMAIN gens :
        /\ Done(gens[r])
        /\ \E x \in 1..Len(gens[r].disc_formulae) :
               /\ Len(gens[r].disc_formulae[x]) >= 3
               /\ gens[r].disc_formulae[x][1] # gens[r].disc_formulae[x][3]

IsPrefix(s, t) == Len(s) <= Len(t) /\ SubSeq(t, 1, Len(s)) = s

PairwiseNonIsomorphic(graphs) ==
    \A x, y \in 1..Len(graphs) : x # y => ~Isomorphic(graphs[x], graphs[y])

\* C6: whatever _add_if_new is called with, a bucket only grows at its end
\* and holds pairwise non-isomorphic graphs.
C6_BucketsNonIsomorphic ==
    [][\A r \in DOMAIN gens :
          \A ne \in DOMAIN gens[r].simple_graphs_d :
              /\ IsPrefix(gens[r].simple_graphs_d[ne], gens'[r].simple_graphs_d[ne])
              /\ PairwiseNonIsomorphic(gens'[r].simple_graphs_d[ne])]_vars

\* a bucket with three graphs
C6_Witness ==
    \E r \in DOMAIN gens :
        \E ne \in DOMAIN gens[r].simple_graphs_d : Len(gens[r].simple_graphs_d[ne]) >= 3

\* both enumerations have returned
BothSimpleOver ==
    \A r \in DOMAIN gens : SimpleOver(gens[r]) /\ gens[r].pc # "KeyError"

BucketsGrow ==
    \A ne \in DOMAIN gens[1].simple_graphs_d :
        Len(gens[1].simple_graphs_d[ne]) <= Len(gens[2].simple_graphs_d[ne])

\* C7: with cmax1 <= cmax2 and everything else equal, no bucket of
\* the cmax2 run holds fewer graphs than the same bucket of the cmax1 run,
\* whatever the collaborator's score depends on.
C7_Monotone == BothSimpleOver => BucketsGrow

\* the connected rows a step appends
NewRows(r) ==
    SubSeq(gens'[r].connected_specs, Len(gens[r].connected_specs) + 1,
           Len(gens'[r].connected_specs))

\* the graphs the connected pass visits before bucket ne
GraphsBefore(self, ne) ==
    Cardinality({x \in 1..Len(GraphSeq(self)) : TupleLess(GraphSeq(self)[x][1], ne)})

\* C8 as stated: the g of a connected row is the position of its graph
\* within the graph list of its own bucket.
C8_GInBucket ==
    [][\A r \in DOMAIN gens :
          (gens[r].pc = "connected" /\ gens[r].gi < Len(GraphSeq(gens[r]))) =>
              \A x \in 1..Len(NewRows(r)) :
                  NewRows(r)[x][g_ind] = GraphSeq(gens[r])[gens[r].gi + 1][2] - 1]_vars

\* C8 as amended: the g of a connected row is the position of its graph in
\* the flattened edges array: the number of graphs in the buckets before its
\* own, in the order (n, e), plus the graph's position within its bucket.
C8_GInEdges ==
    [][\A r \in DOMAIN gens :
          (gens[r].pc = "connected" /\ gens[r].gi < Len(GraphSeq(gens[r]))) =>
              LET item == GraphSeq(gens[r])[gens[r].gi + 1]
              IN  \A x \in 1..Len(NewRows(r)) :
                      LET g == NewRows(r)[x][g_ind]
                      IN  /\ g = GraphsBefore(gens[r], item[1]) + item[2] - 1
                          /\ gens'[r].edges[g + 1] = gens[r].edges_d[item[1]][item[2]]
                          /\ NewRows(r)[x][n_ind] = item[1][1]
                          /\ NewRows(r)[x][e_ind] = item[1][2]]_vars

\* a connected row of a graph that is first in its bucket and not first in
\* the edges array
C8_Witness ==
    \E r \in DOMAIN gens :
        \E x \in 1..Len(gens[r].connected_specs) :
            /\ gens[r].connected_specs[x][n_ind] = 3
            /\ gens[r].connected_specs[x][g_ind] >= 1
            /\ Len(gens[r].simple_graphs_d[<<3, gens[r].connected_specs[x][e_ind]>>]) = 1

\* what a catalog hands out
Catalog(self) ==
    <<self.specs, self.disc_formulae, self.edges, self.weights>>

\* C9: two runs with the same configuration and collaborator produce the
\* same catalog, whatever order their sets are iterated in.
C9_Deterministic ==
    (\A r \in DOMAIN gens : Done(gens[r])) =>
        \A r, q \in DOMAIN gens : Catalog(gens[r]) = Catalog(gens[q])

\* the index maps the (n, d, k) of every connected row to the row's position
IndexResolves(self) ==
    \A x \in 1..Len(self.connected_specs) :
        LET row == self.connected_specs[x]
            ndk == <<row[n_ind], row[d_ind], row[k_ind]>>
        IN  ndk \in DOMAIN self.ndk2i /\ self.ndk2i[ndk] = x - 1

\* C10: the index and the counts are written only by a step that creates
\* connected rows; no disconnected candidate exists before the connected
\* pass is over; from then on the index, the counts and the connected rows
\* stay as they are; and the index maps every connected row's (n, d, k) to
\* its position, after every step and so at the end.
C10_PhaseOrder ==
    [][\A r \in DOMAIN gens :
          /\ (gens'[r].ks # gens[r].ks \/ gens'[r].ndk2i # gens[r].ndk2i) =>
                 /\ gens[r].pc = "connected"
                 /\ Len(gens'[r].connected_specs) > Len(gens[r].connected_specs)
          /\ (gens'[r].l_disc_formulae # gens[r].l_disc_formulae) =>
                 /\ gens[r].gi = Len(GraphSeq(gens[r]))
                 /\ gens[r].pc \in {"connected", "disconnected"}
          /\ ConnectedOver(gens[r]) =>
                 /\ gens'[r].ks = gens[r].ks
                 /\ gens'[r].ndk2i = gens[r].ndk2i
                 /\ gens'[r].connected_specs = gens[r].connected_specs
          /\ IndexResolves(gens'[r])]_vars

\* a finished catalog with connected and disconnected rows
C10_Witness ==
    \E r \in DOMAIN gens :
        /\ Done(gens[r])
        /\ Len(gens[r].connected_specs) >= 3
        /\ Len(gens[r].disc_specs) >= 3

====
